---------------------------- MODULE Spec2Model ----------------------------
(***************************************************************************)
(* Model of the micro-media gallery: the source resolver and batch         *)
(* renderer of js/gallery.js, the reaction store of the interactions       *)
(* script (unnamed/part_007), the localStorage-backed window.storage of    *)
(* js/storage-polyfill.js and the admin panel's writes to the override     *)
(* keys (js/admin-gallery.js).                                             *)
(*                                                                         *)
(* Execution is the browser's event loop: every action below is one task   *)
(* (a timer callback, a click handler, the continuation of a settled       *)
(* fetch) run to its next real suspension point.  An await on the          *)
(* polyfill's storage.get settles in a microtask, so no other task runs    *)
(* between it and the code after it.                                       *)
(***************************************************************************)
EXTENDS Naturals, Sequences, FiniteSets, TLC

(***************************************************************************)
(* Bounds of the model                                                     *)
(***************************************************************************)
MaxResolves == 2      \* resolver tasks that may be alive at the same time
MaxClicks == 1        \* reaction clicks per behaviour of the full-page specification
MaxCalls == 4         \* displayNextBatch calls per behaviour of the batch specification

(***************************************************************************)
(* JavaScript values                                                       *)
(***************************************************************************)
Undefined == "<undefined>"      \* undefined / a missing property
Null == "<null>"                \* null
NoFile == <<Undefined>>         \* a missing file property

\* a falsy string-valued property: undefined, null or ''
Falsy(x) == x \in {Undefined, Null, ""}

\* JSON.stringify / JSON.parse of the values the program stores: the text
\* is kept apart from the value, a text is never used as a value
JSONstringify(v) == [json |-> v]
JSONparse(t) == t.json

RECURSIVE SeqFilterNe(_, _)
\* users.filter(id => id !== userId)
SeqFilterNe(s, x) ==
  IF s = <<>> THEN <<>>
  ELSE IF Head(s) = x THEN SeqFilterNe(Tail(s), x)
       ELSE <<Head(s)>> \o SeqFilterNe(Tail(s), x)

Max(a, b) == IF a >= b THEN a ELSE b
Min(a, b) == IF a <= b THEN a ELSE b

(***************************************************************************)
(* Reaction store (unnamed/part_007)                                       *)
(***************************************************************************)
STORAGE_KEY_PREFIX == "reactions:"

\* the four reaction buttons of a card
reactionTypes == {"fire", "exhale", "neutral", "down"}

\* identifiers generateUserId can produce (fingerprint hash + Date.now())
Voters == {"user_a", "user_b"}

NoReactions == [k \in {} |-> [count |-> 0, users |-> <<>>]]

\* the record loadReactionsForMedia returns when nothing is stored
EmptyRecord == [reactions |-> NoReactions, userChoice |-> Null]

\* delete data.reactions[reactionType]
DeleteKind(reactions, k) == [x \in (DOMAIN reactions) \ {k} |-> reactions[x]]

\* data.reactions[k] = value
SetKind(reactions, k, v) ==
  [x \in (DOMAIN reactions) \cup {k} |-> IF x = k THEN v ELSE reactions[x]]

\* a removeReaction that filters the voter out and leaves the count as it is
removeReactionKeepCount(data, reactionType, uid) ==
  IF reactionType \notin DOMAIN data.reactions THEN data
  ELSE LET reaction == data.reactions[reactionType]
           users == SeqFilterNe(reaction.users, uid)
       IN [data EXCEPT !.reactions =
             SetKind(data.reactions, reactionType,
                     [count |-> reaction.count, users |-> users])]

removeReactionNoDelete(data, reactionType, uid) ==
  IF reactionType \notin DOMAIN data.reactions THEN data
  ELSE LET reaction == data.reactions[reactionType]
           count == Max(0, reaction.count - 1)
           users == SeqFilterNe(reaction.users, uid)
       IN [data EXCEPT !.reactions =
             SetKind(data.reactions, reactionType, [count |-> count, users |-> users])]

removeReaction(data, reactionType, uid) ==
  IF reactionType \notin DOMAIN data.reactions THEN data
  ELSE LET reaction == data.reactions[reactionType]
           count == Max(0, reaction.count - 1)
           users == SeqFilterNe(reaction.users, uid)
       IN IF count = 0
          THEN [data EXCEPT !.reactions = DeleteKind(data.reactions, reactionType)]
          ELSE [data EXCEPT !.reactions =
                  SetKind(data.reactions, reactionType, [count |-> count, users |-> users])]

AddVoteNoChoice(data, reactionType, uid) ==
  LET r0 == IF reactionType \in DOMAIN data.reactions
            THEN data.reactions[reactionType]
            ELSE [count |-> 0, users |-> <<>>]
  IN [reactions |-> SetKind(data.reactions, reactionType,
                            [count |-> r0.count + 1, users |-> Append(r0.users, uid)]),
      userChoice |-> data.userChoice]

\* the "add new vote" branch of handleReaction
AddVote(data, reactionType, uid) ==
  LET r0 == IF reactionType \in DOMAIN data.reactions
            THEN data.reactions[reactionType]
            ELSE [count |-> 0, users |-> <<>>]
  IN [reactions |-> SetKind(data.reactions, reactionType,
                            [count |-> r0.count + 1, users |-> Append(r0.users, uid)]),
      userChoice |-> reactionType]

\* a handler that stops half-way through a switch: the previous vote is
\* removed, the new one is not added
ApplyReactionRemoveOnly(data, reactionType, uid) ==
  LET previousChoice == data.userChoice
  IN IF previousChoice = reactionType
     THEN [removeReaction(data, previousChoice, uid) EXCEPT !.userChoice = Null]
     ELSE IF ~Falsy(previousChoice)
     THEN [removeReaction(data, previousChoice, uid) EXCEPT !.userChoice = Null]
     ELSE AddVote(data, reactionType, uid)

ApplyReactionKeepPrevious(data, reactionType, uid) ==
  IF data.userChoice = reactionType
  THEN [removeReaction(data, data.userChoice, uid) EXCEPT !.userChoice = Null]
  ELSE AddVote(data, reactionType, uid)

ApplyReactionKeepChoice(data, reactionType, uid) ==
  LET previousChoice == data.userChoice
  IN IF previousChoice = reactionType
     THEN removeReaction(data, previousChoice, uid)
     ELSE AddVote(IF ~Falsy(previousChoice)
                  THEN removeReaction(data, previousChoice, uid)
                  ELSE data,
                  reactionType, uid)

\* the record handleReaction computes from the loaded one, before saving it
ApplyReaction(data, reactionType, uid) ==
  LET previousChoice == data.userChoice
  IN IF previousChoice = reactionType
     THEN [removeReaction(data, previousChoice, uid) EXCEPT !.userChoice = Null]
     ELSE AddVote(IF ~Falsy(previousChoice)
                  THEN removeReaction(data, previousChoice, uid)
                  ELSE data,
                  reactionType, uid)

\* what updateAllReactionsUI writes into a card's four buttons
ReactionsUI(data) ==
  [count |-> [k \in reactionTypes |->
                IF k \in DOMAIN data.reactions THEN data.reactions[k].count ELSE 0],
   selected |-> {k \in reactionTypes : data.userChoice = k}]

\* the buttons createInteractionsSection builds: every count '0', none selected
FreshUI == [count |-> [k \in reactionTypes |-> 0], selected |-> {}]

(***************************************************************************)
(* Raw records of the sources and the MediaItem the resolver builds        *)
(***************************************************************************)
ITEMS_PER_LOAD == 5

\* values Math.random().toString(36).substr(..) (with Date.now()) can give
RandTokens == {"r1", "r2"}

\* a file name is the sequence of its dot-separated parts: a.mp4 = <<"a","mp4">>
F(stem, ext) == <<stem, ext>>
ParentHref == <<"", "", "/">>          \* the '../' anchor of a directory index

NoPath == [dir |-> Undefined, file |-> NoFile]
VIDEO_BASE == "media/videos/sd/"
IMAGE_BASE == "media/images/full/"

\* an entry of a catalog array: a JSON object, a bare string or null
Obj(id, file, title) ==
  [shape |-> "object", str |-> NoFile, id |-> id, file |-> file, url |-> Undefined,
   isCloudLink |-> FALSE, title |-> title, path |-> NoPath, type |-> Undefined]
CloudObj(id, url, title, flag) ==
  [shape |-> "object", str |-> NoFile, id |-> id, file |-> NoFile, url |-> url,
   isCloudLink |-> flag, title |-> title, path |-> NoPath, type |-> Undefined]
Str(file) ==
  [shape |-> "string", str |-> file, id |-> Undefined, file |-> NoFile, url |-> Undefined,
   isCloudLink |-> FALSE, title |-> Undefined, path |-> NoPath, type |-> Undefined]
NullEntry ==
  [shape |-> "null", str |-> NoFile, id |-> Undefined, file |-> NoFile, url |-> Undefined,
   isCloudLink |-> FALSE, title |-> Undefined, path |-> NoPath, type |-> Undefined]

\* a property that should hold an array: an array, or some other (truthy) value
Arr(s) == [isArray |-> TRUE, items |-> s]
NotArray == [isArray |-> FALSE, items |-> <<>>]

Doc(v, i, c) == [isNull |-> FALSE, videos |-> v, images |-> i, cloud_links |-> c]
NullDoc == [isNull |-> TRUE, videos |-> Arr(<<>>), images |-> Arr(<<>>), cloud_links |-> Arr(<<>>)]

\* x || d for string-valued properties
OrElse(x, d) == IF Falsy(x) THEN d ELSE x

\* a synthesized id: prefix, then what Date.now() and Math.random() gave.  One
\* draw (tok) stands for the call's clock value, the position j in the batch
\* tells the random parts of one batch apart
RandomId(prefix, tok, j) == prefix \o tok \o "_" \o ToString(j)

\* the local-file item loadFromMediaJson pushes for entry e of kind "video"/"image"
\* (src is not a property of the item: it records the source the entry came from)
LocalItem(e, kind, tok, j, src) ==
  [src |-> src,
   id |-> OrElse(e.id, RandomId(IF kind = "video" THEN "v_" ELSE "i_", tok, j)),
   type |-> kind,
   cloudType |-> Undefined,
   url |-> Undefined,
   path |-> IF e.path # NoPath THEN e.path
            ELSE [dir |-> IF kind = "video" THEN VIDEO_BASE ELSE IMAGE_BASE, file |-> e.file],
   file |-> e.file,
   title |-> OrElse(e.title, "")]

\* the cloud-link item loadFromMediaJson pushes
CloudItem(e, cloudType, defaultTitle, src) ==
  [src |-> src,
   id |-> e.id,
   type |-> "cloud-link",
   cloudType |-> cloudType,
   url |-> e.url,
   path |-> NoPath,
   file |-> NoFile,
   title |-> OrElse(e.title, defaultTitle)]

\* the item loadFromCatalog pushes for a string entry or an object entry
LegacyItem(e, kind, tok, j, src) ==
  LET file == IF e.shape = "string" THEN e.str ELSE e.file
      fresh == RandomId(IF kind = "video" THEN "v_legacy_" ELSE "i_legacy_", tok, j)
  IN [src |-> src,
      id |-> IF e.shape = "string" THEN fresh ELSE OrElse(e.id, fresh),
      type |-> kind,
      cloudType |-> Undefined,
      url |-> Undefined,
      path |-> [dir |-> IF kind = "video" THEN VIDEO_BASE ELSE IMAGE_BASE, file |-> file],
      file |-> file,
      title |-> IF e.shape = "string" THEN "" ELSE OrElse(e.title, "")]

\* the item loadFromNginx pushes for an anchor's href
NginxItem(filename, kind, tok, j) ==
  [src |-> "nginx",
   id |-> RandomId(IF kind = "video" THEN "v_nginx_" ELSE "i_nginx_", tok, j),
   type |-> kind,
   cloudType |-> Undefined,
   url |-> Undefined,
   path |-> [dir |-> IF kind = "video" THEN VIDEO_BASE ELSE IMAGE_BASE, file |-> filename],
   file |-> filename,
   title |-> ""]

\* index of the first null entry of s, Len(s)+1 when there is none
FirstNull(s) ==
  IF \E j \in 1..Len(s) : s[j].shape = "null"
  THEN CHOOSE j \in 1..Len(s) : s[j].shape = "null" /\ \A h \in 1..(j-1) : s[h].shape # "null"
  ELSE Len(s) + 1

(***************************************************************************)
(* State                                                                   *)
(***************************************************************************)
VARIABLES
  env,            \* what the server and the page's scripts hold: data/media.json,
                  \* media-catalog.js, the two directory indexes
  lsUserId,       \* localStorage['gallery-user-id'] (Null when absent)
  lsReactions,    \* localStorage['reactions:<mediaId>'], by mediaId (JSON texts)
  lsOverride,     \* localStorage['media-videos'], ['media-images'] (JSON texts)
  userId,         \* part_007: let userId
  inited,         \* part_007: init() has run (userId set, click listener attached)
  mediaCatalog,   \* the mediaCatalog object of this page load (loadFromCatalog writes it)
  allMediaItems,  \* gallery.js: let allMediaItems
  displayedCount, \* gallery.js: let displayedCount
  tasks,          \* the resolves in flight: loadMediaFiles and what it awaits
  cards,          \* the .media-card children of .gallery, in document order
  messages,       \* the message blocks showMessage appended to .gallery
  loadMoreBtn,    \* .gallery holds a .load-more-btn
  skeleton,       \* .gallery holds the loading skeleton
  idOf,           \* the id each source record was first given in this page load
  nClicks,        \* reaction clicks so far, where the specification bounds them
  nCalls,         \* displayNextBatch calls so far, where the specification counts them
  lastClick       \* the last reaction click: its card and kind, whether the store
                  \* took its read and its write, what it loaded

vars == <<env, lsUserId, lsReactions, lsOverride, userId, inited, mediaCatalog,
          allMediaItems, displayedCount, tasks, cards, messages, loadMoreBtn,
          skeleton, idOf, nClicks, nCalls, lastClick>>

storeVars == <<lsUserId, lsReactions, lsOverride>>
reactVars == <<userId, inited, nClicks, nCalls, lastClick>>
galleryVars == <<mediaCatalog, allMediaItems, displayedCount, cards, messages,
                 loadMoreBtn, skeleton, idOf>>

(***************************************************************************)
(* window.storage (js/storage-polyfill.js) over the override keys          *)
(***************************************************************************)
\* window.storage.get: throws when the key is not in localStorage
storageGet(ls, key) ==
  IF key \notin DOMAIN ls
  THEN [threw |-> TRUE, value |-> JSONstringify(<<>>)]
  ELSE [threw |-> FALSE, value |-> ls[key]]

\* localStorage.setItem / removeItem on a family of keys
setItem(ls, key, text) == [k \in (DOMAIN ls) \cup {key} |-> IF k = key THEN text ELSE ls[k]]
removeItem(ls, key) == [k \in (DOMAIN ls) \ {key} |-> ls[k]]

\* the try block both loaders run: the two gets, then the two replacements;
\* anything thrown leaves what was assigned so far
StorageOverrides(ls, videos, images) ==
  LET videosData == storageGet(ls, "media-videos")
      imagesData == storageGet(ls, "media-images")
  IN IF videosData.threw \/ imagesData.threw
     THEN [videos |-> videos, images |-> images, replaced |-> FALSE]
     ELSE [videos |-> Arr(JSONparse(videosData.value)),
           images |-> Arr(JSONparse(imagesData.value)), replaced |-> TRUE]

(***************************************************************************)
(* Batch renderer (js/gallery.js)                                          *)
(***************************************************************************)
\* element.dataset.x = v stores the string form of v
DatasetString(v) == IF v = Undefined THEN "undefined" ELSE IF v = Null THEN "null" ELSE v

(***************************************************************************)
(* Embed URL translator (js/gallery.js convertToEmbedUrl)                  *)
(***************************************************************************)
\* String.prototype.indexOf, counted from 1; 0 when pat does not occur
indexOf(str, pat) ==
  LET at == {i \in 1..(Len(str) - Len(pat) + 1) : SubSeq(str, i, i + Len(pat) - 1) = pat}
  IN IF at = {} THEN 0 ELSE CHOOSE i \in at : \A h \in at : i <= h

includes(str, pat) == indexOf(str, pat) # 0

endsWith(str, pat) ==
  Len(pat) <= Len(str) /\ SubSeq(str, Len(str) - Len(pat) + 1, Len(str)) = pat

\* str.split(sep), sep not empty
RECURSIVE split(_, _)
split(str, sep) ==
  LET i == indexOf(str, sep)
  IN IF i = 0 THEN <<str>>
     ELSE <<SubSeq(str, 1, i - 1)>> \o split(SubSeq(str, i + Len(sep), Len(str)), sep)

\* str.replace(pat, by) with a string pattern: the first occurrence only
replace(str, pat, by) ==
  LET i == indexOf(str, pat)
  IN IF i = 0 THEN str
     ELSE SubSeq(str, 1, i - 1) \o by \o SubSeq(str, i + Len(pat), Len(str))

UpperCaseLetters == "ABCDEFGHIJKLMNOPQRSTUVWXYZ"
LowerCaseLetters == "abcdefghijklmnopqrstuvwxyz"
DigitChars == "0123456789"
\* the class [a-zA-Z0-9_-]
FileIdChars == UpperCaseLetters \o LowerCaseLetters \o DigitChars \o "_-"

\* url.toLowerCase()
RECURSIVE stringToLowerCase(_)
stringToLowerCase(str) ==
  IF str = "" THEN ""
  ELSE LET c == SubSeq(str, 1, 1)
           i == indexOf(UpperCaseLetters, c)
       IN (IF i = 0 THEN c ELSE SubSeq(LowerCaseLetters, i, i))
          \o stringToLowerCase(SubSeq(str, 2, Len(str)))

\* the longest beginning of str made of characters of class
RECURSIVE LeadingRun(_, _)
LeadingRun(str, class) ==
  IF str = "" \/ ~includes(class, SubSeq(str, 1, 1)) THEN ""
  ELSE SubSeq(str, 1, 1) \o LeadingRun(SubSeq(str, 2, Len(str)), class)

\* url.match(/lit(class+)/): the capture of the leftmost match, Null without one
MatchGroup(url, lit, class) ==
  LET at == {i \in 1..(Len(url) - Len(lit)) :
               /\ SubSeq(url, i, i + Len(lit) - 1) = lit
               /\ includes(class, SubSeq(url, i + Len(lit), i + Len(lit)))}
  IN IF at = {} THEN Null
     ELSE LET i == CHOOSE i \in at : \A h \in at : i <= h
          IN LeadingRun(SubSeq(url, i + Len(lit), Len(url)), class)

\* the value of the first name=value pair called name in a list of pairs
RECURSIVE FirstParam(_, _)
FirstParam(pairs, name) ==
  IF pairs = <<>> THEN Null
  ELSE LET pair == Head(pairs)
           eq == indexOf(pair, "=")
           key == IF eq = 0 THEN pair ELSE SubSeq(pair, 1, eq - 1)
           val == IF eq = 0 THEN "" ELSE SubSeq(pair, eq + 1, Len(pair))
       IN IF pair # "" /\ key = name THEN replace(val, "+", " ")
          ELSE FirstParam(Tail(pairs), name)

\* new URLSearchParams(query).get(name); query is undefined for a url
\* without '?'.  Percent-decoding is left out: no url of the model has a '%'.
URLSearchParamsGet(query, name) ==
  IF query = Undefined THEN Null ELSE FirstParam(split(query, "&"), name)

\* parts[k] of a split, undefined past its end (k counted from 0)
Part(parts, k) == IF k + 1 <= Len(parts) THEN parts[k + 1] ELSE Undefined

\* a video id taken from the first query parameter, whatever its name
youTubeVideoIdFirstParam(url) ==
  IF includes(url, "youtube.com/watch")
  THEN LET query == Part(split(url, "?"), 1)
       IN IF query = Undefined THEN Null
          ELSE LET pair == Head(split(query, "&"))
                   eq == indexOf(pair, "=")
               IN IF eq = 0 THEN "" ELSE SubSeq(pair, eq + 1, Len(pair))
  ELSE IF includes(url, "youtu.be/")
  THEN Part(split(Part(split(url, "youtu.be/"), 1), "?"), 0)
  ELSE ""

\* videoId of the YouTube branch: the v parameter of a watch url, the path of
\* a short link, '' otherwise
youTubeVideoId(url) ==
  IF includes(url, "youtube.com/watch")
  THEN URLSearchParamsGet(Part(split(url, "?"), 1), "v")
  ELSE IF includes(url, "youtu.be/")
  THEN Part(split(Part(split(url, "youtu.be/"), 1), "?"), 0)
  ELSE ""

\* convertToEmbedUrl(url) for a string url
convertToEmbedUrl(url) ==
  LET videoId == youTubeVideoId(url)
      vimeoId == MatchGroup(url, "vimeo.com/", DigitChars)
      fileId == MatchGroup(url, "/d/", FileIdChars)
      urlLower == stringToLowerCase(url)
  IN IF (includes(url, "youtube.com") \/ includes(url, "youtu.be")) /\ ~Falsy(videoId)
     THEN "https://www.youtube.com/embed/" \o videoId
     ELSE IF includes(url, "vimeo.com") /\ vimeoId # Null
     THEN "https://player.vimeo.com/video/" \o vimeoId
     ELSE IF includes(url, "dropbox.com")
     THEN IF includes(url, "?dl=0") THEN replace(url, "?dl=0", "?raw=1")
          ELSE url \o (IF includes(url, "?") THEN "&raw=1" ELSE "?raw=1")
     ELSE IF includes(url, "drive.google.com") /\ fileId # Null
     THEN "https://drive.google.com/file/d/" \o fileId \o "/preview"
     ELSE IF includes(url, "onedrive.live.com") \/ includes(url, "1drv.ms")
     THEN url \o (IF includes(url, "?") THEN "&embed=1" ELSE "?embed=1")
     ELSE IF \E ext \in {".jpg", ".jpeg", ".png", ".gif", ".webp", ".bmp"} :
               endsWith(urlLower, ext)
     THEN url
     ELSE IF \E ext \in {".mp4", ".webm", ".mov"} : endsWith(urlLower, ext)
     THEN url
     ELSE Null

\* convertToEmbedUrl(item.url) reads url.includes: a TypeError without a url
CardThrows(item) == item.type = "cloud-link" /\ item.url \in {Undefined, Null}

\* the card createVideoCard / createImageCard / createCloudLinkCard appends
Card(item, tok, j) ==
  [mediaId |-> IF item.type = "video" THEN OrElse(item.id, RandomId("video-", tok, j))
               ELSE IF item.type = "image" THEN OrElse(item.id, RandomId("image-", tok, j))
               ELSE DatasetString(item.id),
   type |-> item.type,
   item |-> item,
   embedUrl |-> IF item.type = "cloud-link" THEN convertToEmbedUrl(item.url)
                ELSE Undefined,
   ui |-> FreshUI,
   mediaError |-> FALSE,
   touched |-> FALSE]

\* the page state the resolver and the renderer work on
Page == [allMediaItems |-> allMediaItems, displayedCount |-> displayedCount,
         cards |-> cards, messages |-> messages, loadMoreBtn |-> loadMoreBtn,
         skeleton |-> skeleton, mediaCatalog |-> mediaCatalog]

\* a displayNextBatch whose loop starts at the first item on every call
displayNextBatchFromStart(g, tok) ==
  LET items == g.allMediaItems
      endIndex == Min(g.displayedCount + ITEMS_PER_LOAD, Len(items))
      added == [j \in 1..endIndex |-> Card(items[j], tok, j)]
  IN [g |-> [g EXCEPT !.cards = g.cards \o added,
                      !.displayedCount = endIndex,
                      !.loadMoreBtn = (endIndex < Len(items))],
      threw |-> FALSE]

\* displayNextBatch(): g is the page after it, threw whether it threw
displayNextBatch(g, tok) ==
  LET items == g.allMediaItems
      endIndex == Min(g.displayedCount + ITEMS_PER_LOAD, Len(items))
      range == (g.displayedCount + 1)..endIndex
      bad == IF \E j \in range : CardThrows(items[j])
             THEN CHOOSE j \in range : CardThrows(items[j])
                                       /\ \A h \in range : h < j => ~CardThrows(items[h])
             ELSE 0
      last == IF bad = 0 THEN endIndex ELSE bad - 1
      n == IF last >= g.displayedCount THEN last - g.displayedCount ELSE 0
      added == [j \in 1..n |-> Card(items[g.displayedCount + j], tok, g.displayedCount + j)]
  IN IF bad # 0
     THEN [g |-> [g EXCEPT !.cards = g.cards \o added], threw |-> TRUE]
     ELSE [g |-> [g EXCEPT !.cards = g.cards \o added,
                           !.displayedCount = endIndex,
                           !.loadMoreBtn = (endIndex < Len(items))],
           threw |-> FALSE]

\* showMessage(title, subtitle)
showMessage(g, title) == [g EXCEPT !.messages = Append(g.messages, title)]

(***************************************************************************)
(* Source resolver (js/gallery.js)                                         *)
(***************************************************************************)
\* the item one forEach callback of loadFromMediaJson pushes for entry e
EntryItem(e, section, tok, j, src) ==
  CASE section = "videos" ->
         IF e.isCloudLink \/ ~Falsy(e.url)
         THEN CloudItem(e, "video", "Cloud Video", src)
         ELSE LocalItem(e, "video", tok, j, src)
    [] section = "images" ->
         IF e.isCloudLink \/ ~Falsy(e.url)
         THEN CloudItem(e, "image", "Cloud Image", src)
         ELSE LocalItem(e, "image", tok, j, src)
    [] section = "cloud_links" ->
         CloudItem(e, OrElse(e.type, "video"), "Cloud Media", src)

\* array.forEach(push ...) over a property: the items pushed and whether it
\* threw (not an array: no forEach; a null entry: a property read of null)
ProcessEntries(list, section, tok, src) ==
  IF ~list.isArray THEN [items |-> <<>>, threw |-> TRUE]
  ELSE LET n == FirstNull(list.items)
       IN [items |-> [j \in 1..(n - 1) |-> EntryItem(list.items[j], section, tok, j, src)],
           threw |-> n <= Len(list.items)]

\* loadFromMediaJson after response.json() gave data, up to its return or throw
loadFromMediaJsonBody(g, data, ls, tok) ==
  IF data.isNull THEN [g |-> g, threw |-> TRUE]
  ELSE
    LET ov == StorageOverrides(ls, data.videos, data.images)
        src == IF ov.replaced THEN "override" ELSE "primary"
        pv == ProcessEntries(ov.videos, "videos", tok, src)
        pi == ProcessEntries(ov.images, "images", tok, src)
        pc == ProcessEntries(data.cloud_links, "cloud_links", tok, "primary")
        pushed == pv.items
                  \o (IF pv.threw THEN <<>> ELSE pi.items)
                  \o (IF pv.threw \/ pi.threw THEN <<>> ELSE pc.items)
        g1 == [g EXCEPT !.allMediaItems = g.allMediaItems \o pushed]
    IN IF pv.threw \/ pi.threw \/ pc.threw THEN [g |-> g1, threw |-> TRUE]
       ELSE IF Len(g1.allMediaItems) = 0
            THEN [g |-> showMessage(g1, "No media in catalog"), threw |-> FALSE]
            ELSE displayNextBatch(g1, tok)

RECURSIVE LegacyItems(_, _, _, _, _, _)
\* the items loadFromCatalog pushes for entries j..n of one kind: a string, or
\* an object with a file; any other entry is passed over
LegacyItems(entries, j, n, kind, tok, src) ==
  IF j > n THEN <<>>
  ELSE (IF entries[j].shape = "string" \/ entries[j].file # NoFile
        THEN <<LegacyItem(entries[j], kind, tok, j, src)>>
        ELSE <<>>)
       \o LegacyItems(entries, j + 1, n, kind, tok, src)

\* one "Load videos" / "Load images" block of loadFromCatalog
ProcessLegacy(list, kind, tok, src) ==
  IF ~list.isArray \/ Len(list.items) = 0 THEN [items |-> <<>>, threw |-> FALSE]
  ELSE LET n == FirstNull(list.items)
       IN [items |-> LegacyItems(list.items, 1, n - 1, kind, tok, src),
           threw |-> n <= Len(list.items)]

\* loadFromCatalog(), up to its return or throw
loadFromCatalog(g, ls, tok) ==
  LET catalog == g.mediaCatalog
      ov == StorageOverrides(ls, catalog.videos, catalog.images)
      g0 == [g EXCEPT !.mediaCatalog = [catalog EXCEPT !.videos = ov.videos,
                                                       !.images = ov.images],
                      !.allMediaItems = <<>>]
      src == IF ov.replaced THEN "override" ELSE "legacy"
      pv == ProcessLegacy(ov.videos, "video", tok, src)
      pi == ProcessLegacy(ov.images, "image", tok, src)
      pushed == pv.items \o (IF pv.threw THEN <<>> ELSE pi.items)
      g1 == [g0 EXCEPT !.allMediaItems = pushed]
  IN IF pv.threw \/ pi.threw THEN [g |-> g1, threw |-> TRUE]
     ELSE IF Len(pushed) = 0
          THEN [g |-> showMessage(g1, "No media in catalog"), threw |-> FALSE]
          ELSE displayNextBatch(g1, tok)

\* String.prototype.toLowerCase on the extensions that occur
toLowerCase(x) ==
  CASE x = "MP4" -> "mp4" [] x = "PNG" -> "png" [] x = "JPG" -> "jpg" [] OTHER -> x

videoExts == {"mp4", "webm", "mov"}
imageExts == {"jpg", "jpeg", "png", "gif", "webp"}

RECURSIVE NginxItems(_, _, _, _, _)
\* links.forEach of loadFromNginx: an anchor without href or '../' is passed
\* over, another one is kept when its last dot-part is an allowed extension
NginxItems(links, j, kind, exts, tok) ==
  IF j > Len(links) THEN <<>>
  ELSE LET filename == links[j]
           ext == toLowerCase(filename[Len(filename)])
       IN (IF filename # NoFile /\ filename # ParentHref /\ ext \in exts
           THEN <<NginxItem(filename, kind, tok, j)>>
           ELSE <<>>)
          \o NginxItems(links, j + 1, kind, exts, tok)

\* the second .then of a directory fetch of loadFromNginx, with its .catch
nginxListing(g, links, kind, tok) ==
  LET pushed == NginxItems(links, 1, kind,
                           IF kind = "video" THEN videoExts ELSE imageExts, tok)
      r == displayNextBatch([g EXCEPT !.allMediaItems = g.allMediaItems \o pushed], tok)
  IN IF r.threw /\ kind = "video" THEN showMessage(r.g, "No media found") ELSE r.g

\* the .catch of a directory fetch that rejected
nginxRejected(g, kind) ==
  IF kind = "video" THEN showMessage(g, "No media found") ELSE g

(***************************************************************************)
(* The sources the behaviours range over                                   *)
(***************************************************************************)
\* data/media.json documents
DocSeven ==
  Doc(Arr(<<Obj("m1", F("a", "mp4"), "A"), Obj("m2", F("b", "mp4"), ""),
            Obj("m3", F("c", "mp4"), ""), Obj("m4", F("d", "mp4"), ""),
            Obj("m5", F("e", "mp4"), "")>>),
      Arr(<<Obj("m6", F("p", "png"), ""), Obj("m7", F("q", "png"), "")>>),
      Arr(<<>>))
DocSmall ==
  Doc(Arr(<<Obj(Undefined, F("a", "mp4"), "")>>),
      Arr(<<Obj("m6", F("p", "png"), "")>>),
      Arr(<<CloudObj("c1", "https://youtu.be/XYZ", "", FALSE)>>))
DocTwo ==
  Doc(Arr(<<Obj("m1", F("a", "mp4"), "A")>>), Arr(<<Obj("m6", F("p", "png"), "")>>), Arr(<<>>))
DocEmpty == Doc(Arr(<<>>), Arr(<<>>), Arr(<<>>))
DocBadImages == Doc(Arr(<<Obj("m1", F("a", "mp4"), "A")>>), NotArray, Arr(<<>>))
DocCloudNoUrl ==
  Doc(Arr(<<Obj("m1", F("a", "mp4"), "A")>>), Arr(<<>>),
      Arr(<<CloudObj(Undefined, Undefined, "", FALSE)>>))
\* a document of n records, n up to twelve (two batches of five and one of
\* two): the first n of eight videos, three images and one cloud link
Take(s, n) == SubSeq(s, 1, Min(Max(n, 0), Len(s)))
DocOfSize(n) ==
  Doc(Arr(Take(<<Obj(Undefined, F("a", "mp4"), ""), Obj("m2", F("b", "mp4"), ""),
                 Obj("m3", F("c", "mp4"), ""), Obj("m4", F("d", "mp4"), ""),
                 Obj("m5", F("e", "mp4"), ""), Obj("m6", F("f", "mp4"), ""),
                 Obj("m7", F("g", "mp4"), ""), Obj("m8", F("h", "mp4"), "")>>, n)),
      Arr(Take(<<Obj(Undefined, F("p", "png"), ""), Obj("m10", F("q", "png"), ""),
                 Obj("m11", F("r", "png"), "")>>, n - 8)),
      Arr(Take(<<CloudObj("c1", "https://youtu.be/XYZ", "", FALSE)>>, n - 11)))
DocWrongExt ==
  Doc(Arr(<<Obj("m1", F("a", "mp4"), "A"), Obj("m9", F("notes", "txt"), "")>>),
      Arr(<<>>), Arr(<<>>))
DocCloudNoId ==
  Doc(Arr(<<Obj("m1", F("a", "mp4"), "A")>>), Arr(<<>>),
      Arr(<<CloudObj(Undefined, "https://youtu.be/XYZ", "", FALSE),
            CloudObj(Undefined, "https://vimeo.com/123", "", FALSE)>>))
PrimaryDocs ==
  {DocSeven, DocSmall, DocEmpty, DocBadImages, DocCloudNoUrl, DocWrongExt, DocCloudNoId,
   NullDoc}

\* media-catalog.js: not loaded by the page, or the object it declares
Legacy(v, i) == [defined |-> TRUE, videos |-> v, images |-> i]
LegacyUndefined == [defined |-> FALSE, videos |-> Arr(<<>>), images |-> Arr(<<>>)]
LegacyTwo == Legacy(Arr(<<Str(F("a", "mp4"))>>), Arr(<<Obj("m6", F("p", "png"), "")>>))
LegacyEmpty == Legacy(Arr(<<>>), Arr(<<>>))
LegacyNullEntry == Legacy(Arr(<<Str(F("a", "mp4")), NullEntry>>), Arr(<<>>))
LegacyCatalogs == {LegacyTwo, LegacyEmpty, LegacyNullEntry}

\* the anchors of the directory indexes media/videos/sd/ and media/images/full/
ListingsV == {<<ParentHref, F("a", "mp4"), F("notes", "txt")>>, <<ParentHref>>}
ListingsI == {<<ParentHref, F("p", "PNG")>>, <<>>}

Envs ==
  {[primary |-> p, legacy |-> l, listV |-> <<ParentHref>>, listI |-> <<>>] :
     p \in PrimaryDocs, l \in LegacyCatalogs}
  \cup
  {[primary |-> p, legacy |-> LegacyUndefined, listV |-> lv, listI |-> li] :
     p \in {DocSmall, DocEmpty}, lv \in ListingsV, li \in ListingsI}

\* the arrays the admin panel holds in siteData (its records carry no id)
AdminVideos == {<<Obj(Undefined, F("o", "mp4"), "")>>}
AdminImages == {<<Obj(Undefined, F("q", "png"), "")>>}

(***************************************************************************)
(* Page load                                                               *)
(***************************************************************************)
Resolves == 1..MaxResolves

IdleTask == [pc |-> "idle", v |-> "none", i |-> "none", consulted |-> <<>>,
             escaped |-> FALSE, pulled |-> FALSE]

\* lastClick before any click; seq alternates with every click
NoClick == [seq |-> 0, card |-> 0, mediaId |-> "", kind |-> "", readOk |-> TRUE,
            writeOk |-> TRUE, loadedChoice |-> Null, loadedEmpty |-> TRUE]

\* what identifies the source record an item was built from
RecordOf(item) == <<item.src, item.type, item.file, item.url>>

\* idOf, with the records of items that it does not hold yet
Remember(ids, items) ==
  LET new == {RecordOf(items[j]) : j \in 1..Len(items)} \ DOMAIN ids
  IN [r \in (DOMAIN ids) \cup new |->
        IF r \in DOMAIN ids THEN ids[r]
        ELSE LET j == CHOOSE j \in 1..Len(items) :
                        RecordOf(items[j]) = r
                        /\ \A h \in 1..(j - 1) : RecordOf(items[h]) # r
             IN items[j].id]

NoIds == [r \in {} |-> ""]

\* the page as the scripts leave it when they have run: gallery.js has called
\* loadMediaFiles() (skeleton shown, 150 ms timer pending)
FreshPage ==
  /\ userId = Null
  /\ inited = FALSE
  /\ mediaCatalog = env.legacy
  /\ allMediaItems = <<>>
  /\ displayedCount = 0
  /\ tasks = [t \in Resolves |-> IF t = 1 THEN [IdleTask EXCEPT !.pc = "skeletonTimer"]
                                 ELSE IdleTask]
  /\ cards = <<>>
  /\ messages = <<>>
  /\ loadMoreBtn = FALSE
  /\ skeleton = TRUE
  /\ idOf = NoIds
  /\ lastClick = NoClick

EmptyStore ==
  /\ lsUserId = Null
  /\ lsReactions = [m \in {} |-> JSONstringify(EmptyRecord)]
  /\ lsOverride = [k \in {} |-> JSONstringify(<<>>)]

SetPage(g) ==
  /\ idOf' = Remember(idOf, g.allMediaItems)
  /\ allMediaItems' = g.allMediaItems
  /\ displayedCount' = g.displayedCount
  /\ cards' = g.cards
  /\ messages' = g.messages
  /\ loadMoreBtn' = g.loadMoreBtn
  /\ skeleton' = g.skeleton
  /\ mediaCatalog' = g.mediaCatalog

\* the user reloads the page: memory and DOM start over, localStorage stays
Reload ==
  /\ userId' = Null
  /\ inited' = FALSE
  /\ mediaCatalog' = env.legacy
  /\ allMediaItems' = <<>>
  /\ displayedCount' = 0
  /\ tasks' = [t \in Resolves |-> IF t = 1 THEN [IdleTask EXCEPT !.pc = "skeletonTimer"]
                                  ELSE IdleTask]
  /\ cards' = <<>>
  /\ messages' = <<>>
  /\ loadMoreBtn' = FALSE
  /\ skeleton' = TRUE
  /\ idOf' = NoIds
  /\ lastClick' = NoClick
  /\ UNCHANGED <<env, storeVars, nClicks, nCalls>>

(***************************************************************************)
(* Resolver tasks                                                          *)
(***************************************************************************)
\* touchend of a pull longer than 80 px: the 800 ms timer is set
TouchEnd(t) ==
  /\ tasks[t].pc \in {"idle", "done"}
  /\ \A u \in Resolves : u < t => tasks[u].pc \notin {"idle", "done"}
  /\ tasks' = [tasks EXCEPT ![t] = [IdleTask EXCEPT !.pc = "refreshTimer",
                                                    !.pulled = TRUE]]
  /\ UNCHANGED <<env, storeVars, reactVars, galleryVars>>

\* the 800 ms timer fires: loadMediaFiles() shows the skeleton (replacing the
\* gallery's children) and sets the 150 ms timer
RefreshTimer(t) ==
  /\ tasks[t].pc = "refreshTimer"
  /\ tasks' = [tasks EXCEPT ![t].pc = "skeletonTimer"]
  /\ cards' = <<>>
  /\ messages' = <<>>
  /\ loadMoreBtn' = FALSE
  /\ skeleton' = TRUE
  /\ UNCHANGED <<env, storeVars, reactVars, mediaCatalog, allMediaItems, displayedCount,
                 idOf>>

\* the 150 ms timer fires: reset, then loadFromMediaJson() up to its fetch
SkeletonTimer(t) ==
  /\ tasks[t].pc = "skeletonTimer"
  /\ tasks' = [tasks EXCEPT ![t].pc = "fetch", ![t].consulted = <<"primary">>]
  /\ cards' = <<>>
  /\ messages' = <<>>
  /\ loadMoreBtn' = FALSE
  /\ skeleton' = FALSE
  /\ allMediaItems' = <<>>
  /\ displayedCount' = 0
  /\ UNCHANGED <<env, storeVars, reactVars, mediaCatalog, idOf>>

\* a catch block that goes to the directory listing whether or not
\* mediaCatalog is defined
CatchFallbackListingFirst(t, g, tok) ==
  /\ SetPage([g EXCEPT !.allMediaItems = <<>>])
  /\ tasks' = [tasks EXCEPT ![t].pc = "nginx", ![t].v = "pending",
                            ![t].i = "pending",
                            ![t].consulted = Append(@, "nginx")]

\* the catch block of loadMediaFiles, entered with the page as g
CatchFallback(t, g, tok) ==
  IF g.mediaCatalog.defined
  THEN LET r == loadFromCatalog(g, lsOverride, tok)
       IN /\ SetPage(r.g)
          /\ tasks' = [tasks EXCEPT ![t].pc = "done",
                                    ![t].consulted = Append(@, "legacy"),
                                    ![t].escaped = r.threw]
  ELSE /\ SetPage([g EXCEPT !.allMediaItems = <<>>])
       /\ tasks' = [tasks EXCEPT ![t].pc = "nginx", ![t].v = "pending",
                                 ![t].i = "pending",
                                 ![t].consulted = Append(@, "nginx")]

\* fetch('data/media.json') settles with a response that is ok
FetchOk(t) ==
  /\ tasks[t].pc = "fetch"
  /\ tasks' = [tasks EXCEPT ![t].pc = "json"]
  /\ UNCHANGED <<env, storeVars, reactVars, galleryVars>>

\* fetch('data/media.json') rejects, or its response is not ok
FetchFails(t, tok) ==
  /\ tasks[t].pc = "fetch"
  /\ CatchFallback(t, Page, tok)
  /\ UNCHANGED <<env, storeVars, reactVars>>

\* response.json() rejects: the body is not JSON
JsonFails(t, tok) ==
  /\ tasks[t].pc = "json"
  /\ CatchFallback(t, Page, tok)
  /\ UNCHANGED <<env, storeVars, reactVars>>

\* response.json() gives the document: the rest of loadFromMediaJson
JsonOk(t, tok) ==
  /\ tasks[t].pc = "json"
  /\ LET r == loadFromMediaJsonBody(Page, env.primary, lsOverride, tok)
     IN IF r.threw
        THEN CatchFallback(t, r.g, tok)
        ELSE /\ SetPage(r.g)
             /\ tasks' = [tasks EXCEPT ![t].pc = "done"]
  /\ UNCHANGED <<env, storeVars, reactVars>>

\* one of the two directory fetches of loadFromNginx gives its HTML
ListingOk(t, kind, tok) ==
  /\ tasks[t].pc = "nginx"
  /\ IF kind = "video" THEN tasks[t].v = "pending" ELSE tasks[t].i = "pending"
  /\ SetPage(nginxListing(Page, IF kind = "video" THEN env.listV ELSE env.listI, kind, tok))
  /\ LET t1 == IF kind = "video" THEN [tasks[t] EXCEPT !.v = "settled"]
                                 ELSE [tasks[t] EXCEPT !.i = "settled"]
     IN tasks' = [tasks EXCEPT ![t] =
                    IF t1.v = "settled" /\ t1.i = "settled"
                    THEN [t1 EXCEPT !.pc = "done"] ELSE t1]
  /\ UNCHANGED <<env, storeVars, reactVars>>

\* one of the two directory fetches rejects
ListingFails(t, kind) ==
  /\ tasks[t].pc = "nginx"
  /\ IF kind = "video" THEN tasks[t].v = "pending" ELSE tasks[t].i = "pending"
  /\ SetPage(nginxRejected(Page, kind))
  /\ LET t1 == IF kind = "video" THEN [tasks[t] EXCEPT !.v = "settled"]
                                 ELSE [tasks[t] EXCEPT !.i = "settled"]
     IN tasks' = [tasks EXCEPT ![t] =
                    IF t1.v = "settled" /\ t1.i = "settled"
                    THEN [t1 EXCEPT !.pc = "done"] ELSE t1]
  /\ UNCHANGED <<env, storeVars, reactVars>>

\* click on the Load More button
LoadMoreClick(tok) ==
  /\ loadMoreBtn
  /\ SetPage(displayNextBatch(Page, tok).g)
  /\ UNCHANGED <<env, storeVars, reactVars, tasks>>

(***************************************************************************)
(* Admin panel (js/admin-gallery.js): the writers of the override keys     *)
(***************************************************************************)
\* saveToStorage(): storage.set of each key; a set that fails returns null
\* and the next one is still made
AdminSave(vs, is, okV, okI) ==
  /\ lsOverride' =
       LET l1 == IF okV THEN setItem(lsOverride, "media-videos", JSONstringify(vs))
                 ELSE lsOverride
       IN IF okI THEN setItem(l1, "media-images", JSONstringify(is)) ELSE l1
  /\ lsOverride' # lsOverride
  /\ UNCHANGED <<env, lsUserId, lsReactions, reactVars, galleryVars, tasks>>

\* "clear all data": storage.delete of both keys
AdminClear ==
  /\ DOMAIN lsOverride # {}
  /\ lsOverride' = removeItem(removeItem(lsOverride, "media-videos"), "media-images")
  /\ UNCHANGED <<env, lsUserId, lsReactions, reactVars, galleryVars, tasks>>

(***************************************************************************)
(* Reactions (unnamed/part_007): init and the delegated click handler      *)
(***************************************************************************)
\* a generateUserId that does not look at the stored id
generateUserIdAlwaysNew(stored, fresh) == [id |-> fresh, stored |-> fresh]

\* generateUserId(): the stored id, or a new one that is stored
generateUserId(stored, fresh) ==
  IF ~Falsy(stored) THEN [id |-> stored, stored |-> stored]
  ELSE [id |-> fresh, stored |-> fresh]

\* loadReactionsForMedia(mediaId); readOk: getItem and JSON.parse do not throw
loadReactionsForMedia(ls, mediaId, readOk) ==
  LET key == STORAGE_KEY_PREFIX \o mediaId
  IN IF readOk /\ key \in DOMAIN ls THEN JSONparse(ls[key]) ELSE EmptyRecord

\* saveReactionsForMedia(mediaId, data); writeOk: setItem does not throw
saveReactionsForMedia(ls, mediaId, data, writeOk) ==
  IF writeOk THEN setItem(ls, STORAGE_KEY_PREFIX \o mediaId, JSONstringify(data)) ELSE ls

\* loadPersistedReactions(gallery): the cards that are in the gallery now
loadPersistedReactions(cs, ls) ==
  [j \in 1..Len(cs) |->
     IF Falsy(cs[j].mediaId) THEN cs[j]
     ELSE [cs[j] EXCEPT !.ui = ReactionsUI(loadReactionsForMedia(ls, cs[j].mediaId, TRUE))]]

\* init(), at DOMContentLoaded (or at once when the document is already parsed)
InteractionsInit(fresh) ==
  /\ ~inited
  /\ LET u == generateUserId(lsUserId, fresh)
     IN /\ userId' = u.id
        /\ lsUserId' = u.stored
  /\ inited' = TRUE
  /\ cards' = loadPersistedReactions(cards, lsReactions)
  /\ UNCHANGED <<env, lsReactions, lsOverride, nClicks, nCalls, lastClick, mediaCatalog,
                 allMediaItems, displayedCount, messages, loadMoreBtn, skeleton, idOf,
                 tasks>>

\* click on reaction button k of card c: handleInteraction, handleReaction
ReactionClick(c, k, readOk, writeOk) ==
  /\ inited
  /\ c \in 1..Len(cards)
  /\ ~Falsy(cards[c].mediaId)
  /\ LET mediaId == cards[c].mediaId
         data == loadReactionsForMedia(lsReactions, mediaId, readOk)
         new == ApplyReaction(data, k, userId)
     IN /\ lsReactions' = saveReactionsForMedia(lsReactions, mediaId, new, writeOk)
        /\ cards' = [j \in 1..Len(cards) |->
                       IF j = c THEN [cards[j] EXCEPT !.ui = ReactionsUI(new), !.touched = TRUE]
                       ELSE IF cards[j].mediaId = mediaId
                            THEN [cards[j] EXCEPT !.touched = TRUE]
                            ELSE cards[j]]
        /\ lastClick' = [seq |-> 1 - lastClick.seq, card |-> c, mediaId |-> mediaId,
                         kind |-> k, readOk |-> readOk, writeOk |-> writeOk,
                         loadedChoice |-> data.userChoice,
                         loadedEmpty |-> (data = EmptyRecord)]
  /\ UNCHANGED <<env, lsUserId, lsOverride, userId, inited, mediaCatalog, allMediaItems,
                 displayedCount, messages, loadMoreBtn, skeleton, idOf, tasks, nCalls>>

(***************************************************************************)
(* Specifications                                                          *)
(***************************************************************************)
\* no resolve is between its pull and its last step
Settled == \A t \in Resolves : tasks[t].pc \in {"idle", "done"}

\* The resolver and the renderer, over every source configuration, one
\* resolve at a time; no reaction is clicked.
InitResolve ==
  /\ env \in Envs
  /\ EmptyStore
  /\ FreshPage
  /\ nClicks = 0
  /\ nCalls = 0

NextResolve ==
  \/ \E t \in Resolves : Settled /\ TouchEnd(t)
  \/ \E t \in Resolves : RefreshTimer(t)
  \/ \E t \in Resolves : SkeletonTimer(t)
  \/ \E t \in Resolves : FetchOk(t)
  \/ \E t \in Resolves, tok \in RandTokens : FetchFails(t, tok)
  \/ \E t \in Resolves, tok \in RandTokens : JsonFails(t, tok)
  \/ \E t \in Resolves, tok \in RandTokens : JsonOk(t, tok)
  \/ \E t \in Resolves, kind \in {"video", "image"}, tok \in RandTokens : ListingOk(t, kind, tok)
  \/ \E t \in Resolves, kind \in {"video", "image"} : ListingFails(t, kind)
  \/ \E tok \in RandTokens : LoadMoreClick(tok)
  \/ \E vs \in AdminVideos, is \in AdminImages, okV, okI \in BOOLEAN : AdminSave(vs, is, okV, okI)
  \/ AdminClear

SpecResolve == InitResolve /\ [][NextResolve]_vars

\* The reaction store on a page whose resolve has completed: data/media.json
\* held DocTwo, both cards are displayed.  Any number of clicks.
InitReactions ==
  /\ env = [primary |-> DocTwo, legacy |-> LegacyUndefined, listV |-> <<>>, listI |-> <<>>]
  /\ EmptyStore
  /\ userId = Null
  /\ inited = FALSE
  /\ lastClick = NoClick
  /\ nClicks = 0
  /\ nCalls = 0
  /\ tasks = [t \in Resolves |-> IF t = 1 THEN [IdleTask EXCEPT !.pc = "done",
                                                              !.consulted = <<"primary">>]
                                 ELSE IdleTask]
  /\ LET g0 == [allMediaItems |-> <<>>, displayedCount |-> 0, cards |-> <<>>,
                messages |-> <<>>, loadMoreBtn |-> FALSE, skeleton |-> FALSE,
                mediaCatalog |-> LegacyUndefined]
         g == loadFromMediaJsonBody(g0, DocTwo, lsOverride, "r1").g
     IN /\ allMediaItems = g.allMediaItems
        /\ idOf = Remember(NoIds, g.allMediaItems)
        /\ displayedCount = g.displayedCount
        /\ cards = g.cards
        /\ messages = g.messages
        /\ loadMoreBtn = g.loadMoreBtn
        /\ skeleton = g.skeleton
        /\ mediaCatalog = g.mediaCatalog

NextReactions ==
  \/ \E fresh \in Voters : InteractionsInit(fresh)
  \/ \E c \in 1..Len(cards), k \in reactionTypes, readOk, writeOk \in BOOLEAN :
       ReactionClick(c, k, readOk, writeOk) /\ UNCHANGED nClicks

SpecReactions == InitReactions /\ [][NextReactions]_vars

\* The whole page: resolver, renderer, admin writes, reactions (at most
\* MaxClicks clicks) and page reloads.
FlowEnvs ==
  {[primary |-> DocSeven, legacy |-> LegacyTwo, listV |-> <<ParentHref>>, listI |-> <<>>],
   [primary |-> DocSmall, legacy |-> LegacyUndefined,
    listV |-> <<ParentHref, F("a", "mp4"), F("notes", "txt")>>,
    listI |-> <<ParentHref, F("p", "PNG")>>]}

Init ==
  /\ env \in FlowEnvs
  /\ EmptyStore
  /\ FreshPage
  /\ nClicks = 0
  /\ nCalls = 0

\* an 'error' handler that marks every card of the gallery
MediaErrorMarksAll(c) ==
  /\ c \in 1..Len(cards)
  /\ cards[c].type \in {"video", "image"}
  /\ ~cards[c].mediaError
  /\ cards' = [j \in 1..Len(cards) |-> [cards[j] EXCEPT !.mediaError = TRUE]]
  /\ UNCHANGED <<env, storeVars, reactVars, mediaCatalog, allMediaItems,
                 displayedCount, tasks, messages, loadMoreBtn, skeleton, idOf>>

\* the 'error' event of the <source> of a video card or the <img> of an image
\* card (the file is missing or the request failed): the card gets the class
\* media-error and the overlay
MediaError(c) ==
  /\ c \in 1..Len(cards)
  /\ cards[c].type \in {"video", "image"}
  /\ ~cards[c].mediaError
  /\ cards' = [cards EXCEPT ![c].mediaError = TRUE]
  /\ UNCHANGED <<env, storeVars, reactVars, mediaCatalog, allMediaItems,
                 displayedCount, tasks, messages, loadMoreBtn, skeleton, idOf>>

Next ==
  \/ NextResolve
  \/ \E fresh \in Voters : InteractionsInit(fresh)
  \/ \E c \in 1..Len(cards), k \in reactionTypes, readOk, writeOk \in BOOLEAN :
       /\ nClicks < MaxClicks
       /\ ReactionClick(c, k, readOk, writeOk)
       /\ nClicks' = nClicks + 1
  \/ \E c \in 1..Len(cards) : MediaError(c)
  \/ Reload

Spec == Init /\ [][Next]_vars

\* The page while data/media.json is reachable and holds DocSeven (seven
\* items: a first batch and one Load More), with reactions (at most MaxClicks
\* clicks), pull-to-refresh and page reloads.
InitPage ==
  /\ env = [primary |-> DocSeven, legacy |-> LegacyTwo, listV |-> <<ParentHref>>,
            listI |-> <<>>]
  /\ EmptyStore
  /\ FreshPage
  /\ nClicks = 0
  /\ nCalls = 0

NextPage ==
  \/ \E t \in Resolves : TouchEnd(t)
  \/ \E t \in Resolves : RefreshTimer(t)
  \/ \E t \in Resolves : SkeletonTimer(t)
  \/ \E t \in Resolves : FetchOk(t)
  \/ \E t \in Resolves, tok \in RandTokens : JsonOk(t, tok)
  \/ \E tok \in RandTokens : LoadMoreClick(tok)
  \/ \E fresh \in Voters : InteractionsInit(fresh)
  \/ \E c \in 1..Len(cards), k \in reactionTypes, readOk, writeOk \in BOOLEAN :
       /\ nClicks < MaxClicks
       /\ ReactionClick(c, k, readOk, writeOk)
       /\ nClicks' = nClicks + 1
  \/ Reload

SpecPage == InitPage /\ [][NextPage]_vars

\* Sessions of one browser: the page loads data/media.json (DocTwo), init()
\* runs, the viewer reacts (at most MaxClicks clicks) and reloads the page,
\* any number of times; no pull-to-refresh.
InitSessions ==
  /\ env = [primary |-> DocTwo, legacy |-> LegacyUndefined, listV |-> <<>>, listI |-> <<>>]
  /\ EmptyStore
  /\ FreshPage
  /\ nClicks = 0
  /\ nCalls = 0

NextSessions ==
  \/ \E t \in Resolves : SkeletonTimer(t)
  \/ \E t \in Resolves : FetchOk(t)
  \/ \E t \in Resolves, tok \in RandTokens : JsonOk(t, tok)
  \/ \E fresh \in Voters : InteractionsInit(fresh)
  \/ \E c \in 1..Len(cards), k \in reactionTypes, readOk, writeOk \in BOOLEAN :
       /\ nClicks < MaxClicks
       /\ ReactionClick(c, k, readOk, writeOk)
       /\ nClicks' = nClicks + 1
  \/ Reload

SpecSessions == InitSessions /\ [][NextSessions]_vars

\* Resolves that overlap (a pull while the page's first resolve, or an earlier
\* pull, still waits for its fetch), data/media.json holding DocTwo and being
\* reachable or not from one fetch to the next, media-catalog.js holding
\* LegacyTwo.
InitRace ==
  /\ env = [primary |-> DocTwo, legacy |-> LegacyTwo, listV |-> <<ParentHref>>,
            listI |-> <<>>]
  /\ EmptyStore
  /\ FreshPage
  /\ nClicks = 0
  /\ nCalls = 0

NextRace ==
  \/ \E t \in Resolves : TouchEnd(t)
  \/ \E t \in Resolves : RefreshTimer(t)
  \/ \E t \in Resolves : SkeletonTimer(t)
  \/ \E t \in Resolves : FetchOk(t)
  \/ \E t \in Resolves, tok \in RandTokens : FetchFails(t, tok)
  \/ \E t \in Resolves, tok \in RandTokens : JsonOk(t, tok)

SpecRace == InitRace /\ [][NextRace]_vars

\* a call of displayNextBatch()
displayNextBatchCall(tok) ==
  /\ SetPage(displayNextBatch(Page, tok).g)
  /\ UNCHANGED <<env, storeVars, userId, inited, nClicks, lastClick, tasks>>

\* the items loadFromMediaJson pushes for a document
PushedItems(data, tok) ==
  ProcessEntries(data.videos, "videos", tok, "primary").items
  \o ProcessEntries(data.images, "images", tok, "primary").items
  \o ProcessEntries(data.cloud_links, "cloud_links", tok, "primary").items

\* The batch renderer on its own: loadFromMediaJson has pushed the items of
\* a document of 0 to 12 records and nothing is displayed; then up to
\* MaxCalls calls of displayNextBatch.
InitBatch ==
  /\ \E n \in 0..12 :
       env = [primary |-> DocOfSize(n), legacy |-> LegacyUndefined,
              listV |-> <<ParentHref>>, listI |-> <<>>]
  /\ EmptyStore
  /\ userId = Null
  /\ inited = FALSE
  /\ lastClick = NoClick
  /\ mediaCatalog = env.legacy
  /\ tasks = [t \in Resolves |-> IF t = 1 THEN [IdleTask EXCEPT !.pc = "json",
                                                              !.consulted = <<"primary">>]
                                 ELSE IdleTask]
  /\ \E tok \in RandTokens : allMediaItems = PushedItems(env.primary, tok)
  /\ idOf = Remember(NoIds, allMediaItems)
  /\ displayedCount = 0
  /\ cards = <<>>
  /\ messages = <<>>
  /\ loadMoreBtn = FALSE
  /\ skeleton = FALSE
  /\ nClicks = 0
  /\ nCalls = 0

NextBatch ==
  \E tok \in RandTokens :
    /\ nCalls < MaxCalls
    /\ displayNextBatchCall(tok)
    /\ nCalls' = nCalls + 1

SpecBatch == InitBatch /\ [][NextBatch]_vars

\* urls of cloud links: watch urls and short links of YouTube carrying id
VideoIds == {"XYZ", "a_B-9"}
WatchUrls(id) ==
  {"https://www.youtube.com/watch?v=" \o id,
   "https://m.youtube.com/watch?v=" \o id \o "&t=10",
   "https://www.youtube.com/watch?list=PL1&v=" \o id,
   "https://www.youtube.com/watch?v=" \o id \o "#t=5",
   "https://www.youtube.com/watch?v=" \o id \o "&from=dropbox.com",
   "https://youtu.be/" \o id,
   "https://youtu.be/" \o id \o "?t=10",
   "https://youtu.be/" \o id \o "?ref=vimeo.com/42"}

\* urls of the other providers, each with the url its rule gives
ProviderUrls ==
  {<<"https://vimeo.com/123", "https://player.vimeo.com/video/123">>,
   <<"https://vimeo.com/123?ref=dropbox.com", "https://player.vimeo.com/video/123">>,
   <<"https://www.dropbox.com/s/ab/pic.jpg?dl=0", "https://www.dropbox.com/s/ab/pic.jpg?raw=1">>,
   <<"https://www.dropbox.com/s/ab/pic.jpg", "https://www.dropbox.com/s/ab/pic.jpg?raw=1">>,
   <<"https://www.dropbox.com/s/ab/pic.jpg?x=1", "https://www.dropbox.com/s/ab/pic.jpg?x=1&raw=1">>,
   <<"https://www.dropbox.com/s/d/zz?dl=0&u=drive.google.com",
     "https://www.dropbox.com/s/d/zz?raw=1&u=drive.google.com">>,
   <<"https://drive.google.com/file/d/F1_x-2/view", "https://drive.google.com/file/d/F1_x-2/preview">>,
   <<"https://drive.google.com/file/d/F1_x-2/view?u=1drv.ms",
     "https://drive.google.com/file/d/F1_x-2/preview">>,
   <<"https://onedrive.live.com/?id=7", "https://onedrive.live.com/?id=7&embed=1">>,
   <<"https://1drv.ms/u/s", "https://1drv.ms/u/s?embed=1">>}

\* urls no provider rule rewrites: with a media extension at their end
DirectUrls ==
  {"https://example.com/clip.mp4", "https://example.com/pic.JPG", "https://example.com/a.webm",
   "https://example.com/b.MOV", "https://example.com/p.bmp", "https://example.com/p.jpeg",
   "https://www.youtube.com/s/img.png"}

\* and without one
UnknownUrls ==
  {"https://example.com/page", "https://example.com/doc.pdf", "https://example.com/clip.mp4?x=1",
   "https://example.com/", "ftp://files.example.org/a.txt", "https://www.youtube.com/shorts/abc",
   "https://vimeo.com/channels/staff", "https://drive.google.com/drive/my-drive"}

CloudUrls ==
  UNION {WatchUrls(id) : id \in VideoIds} \cup {pair[1] : pair \in ProviderUrls}
  \cup DirectUrls \cup UnknownUrls

\* the page when loadFromMediaJson has pushed the items of doc and nothing is
\* displayed yet
RendererStart(doc, tok) ==
  /\ env = [primary |-> doc, legacy |-> LegacyUndefined, listV |-> <<ParentHref>>,
            listI |-> <<>>]
  /\ EmptyStore
  /\ userId = Null
  /\ inited = FALSE
  /\ lastClick = NoClick
  /\ mediaCatalog = env.legacy
  /\ tasks = [t \in Resolves |-> IF t = 1 THEN [IdleTask EXCEPT !.pc = "json",
                                                              !.consulted = <<"primary">>]
                                 ELSE IdleTask]
  /\ allMediaItems = PushedItems(env.primary, tok)
  /\ idOf = Remember(NoIds, allMediaItems)
  /\ displayedCount = 0
  /\ cards = <<>>
  /\ messages = <<>>
  /\ loadMoreBtn = FALSE
  /\ skeleton = FALSE
  /\ nClicks = 0
  /\ nCalls = 0

\* The translator behind the renderer: loadFromMediaJson has pushed one cloud
\* link whose url is any of CloudUrls; then displayNextBatch renders its card.
InitEmbed ==
  \E url \in CloudUrls :
    RendererStart(Doc(Arr(<<>>), Arr(<<>>), Arr(<<CloudObj("c1", url, "", FALSE)>>)), "r1")

SpecEmbed == InitEmbed /\ [][NextBatch]_vars

\* DocOfSize(n) whose b-th video record is a cloud link that has no url
DocWithBrokenLink(n, b) ==
  LET doc == DocOfSize(n)
  IN [doc EXCEPT !.videos.items[b] = CloudObj("cx", Undefined, "", TRUE)]

\* The batch renderer over a list that holds one item no card can be made of:
\* up to MaxCalls calls of displayNextBatch (the resolver's, then Load More).
InitBroken ==
  \E n \in 1..12, tok \in RandTokens :
    \E b \in 1..Min(n, 8) : RendererStart(DocWithBrokenLink(n, b), tok)

SpecBroken == InitBroken /\ [][NextBatch]_vars

\* The batch renderer with media elements that may fail to load.
NextCards ==
  \/ NextBatch
  \/ \E c \in 1..Len(cards) : MediaError(c)

SpecCards == InitBatch /\ [][NextCards]_vars

(***************************************************************************)
(* Properties of the reaction store (SpecReactions)                        *)
(***************************************************************************)
\* the record persisted for mediaId (the empty record when the key is absent)
StoredRecord(ls, mediaId) == loadReactionsForMedia(ls, mediaId, TRUE)

\* the reaction records persisted in localStorage
StoredRecords == {JSONparse(lsReactions[key]) : key \in DOMAIN lsReactions}

Range(f) == {f[x] : x \in DOMAIN f}

\* the kinds in whose users list voter uid is
KindsOf(rec, uid) == {k \in DOMAIN rec.reactions : uid \in Range(rec.reactions[k].users)}

CountOf(rec, k) == IF k \in DOMAIN rec.reactions THEN rec.reactions[k].count ELSE 0

\* a reaction click was handled in this step
Clicked == lastClick'.seq # lastClick.seq
\* ... and the store took its read and its write
ClickedOk == Clicked /\ lastClick'.readOk /\ lastClick'.writeOk

\* C1: in every persisted reaction record the voter is in the users list of
\* at most one kind, and userChoice names exactly that kind (null when the
\* voter is in none).
C1_OneKindPerVoter ==
  \A rec \in StoredRecords :
    LET ks == KindsOf(rec, userId)
    IN /\ Cardinality(ks) <= 1
       /\ \A k \in reactionTypes : (rec.userChoice = k) <=> (k \in ks)
       /\ (rec.userChoice = Null) <=> (ks = {})

\* C1 witness: a record persisted by a switch (the click loaded a choice
\* other than the clicked kind) names the clicked kind as the only one
C1_Witness ==
  /\ lastClick.readOk /\ lastClick.writeOk
  /\ lastClick.loadedChoice = "fire" /\ lastClick.kind = "down"
  /\ KindsOf(StoredRecord(lsReactions, lastClick.mediaId), userId) = {"down"}

\* C2: in every persisted reaction record, every kind present has a count
\* equal to the length of its users list, which holds no voter twice, and no
\* kind is stored with count 0.
C2_CountIsUsers ==
  \A rec \in StoredRecords :
    \A k \in DOMAIN rec.reactions :
      LET r == rec.reactions[k]
      IN /\ r.count = Len(r.users)
         /\ Cardinality(Range(r.users)) = Len(r.users)
         /\ r.count > 0

\* C2 witness: a persisted record that once held a vote and holds none now,
\* beside one that holds a vote
C2_Witness ==
  /\ \E rec \in StoredRecords : DOMAIN rec.reactions = {}
  /\ \E rec \in StoredRecords :
       /\ DOMAIN rec.reactions = {"exhale"}
       /\ rec.reactions["exhale"] = [count |-> 1, users |-> <<userId>>]

\* the files of the items of one kind, and the files of a list of entries
FilesOfKind(items, kind) ==
  {items[j].file : j \in {h \in 1..Len(items) : items[h].type = kind}}
EntryFiles(entries) == {entries[j].file : j \in 1..Len(entries)}

\* C3 (as claimed): when a resolve completes from the primary catalog while
\* the override store holds a collection for videos only, the video items are
\* exactly the override's records and the image items are the primary
\* catalog's.
C3_OverridePerKind ==
  [][\A t \in Resolves :
       (/\ tasks[t].pc = "json" /\ tasks'[t].pc = "done"
        /\ tasks'[t].consulted = <<"primary">>
        /\ DOMAIN lsOverride = {"media-videos"}
        /\ env.primary.images.isArray)
         => /\ FilesOfKind(allMediaItems', "video")
                 = EntryFiles(JSONparse(lsOverride["media-videos"]))
            /\ FilesOfKind(allMediaItems', "image")
                 = EntryFiles(env.primary.images.items)]_vars

\* C4 (as claimed): once init() has run, every card in the gallery that the
\* viewer has not clicked yet shows the counts and the choice stored under
\* reactions:<its mediaId>.
C4_CardsRehydrated ==
  inited =>
    \A j \in 1..Len(cards) :
      ~cards[j].touched
        => cards[j].ui = ReactionsUI(StoredRecord(lsReactions, cards[j].mediaId))

\* C5 (as claimed): a click whose read or write the store rejects changes
\* neither the persisted record nor what the card shows.
C5_RejectedClickIsNoOp ==
  [][(Clicked /\ ~(lastClick'.readOk /\ lastClick'.writeOk))
       => /\ lsReactions' = lsReactions
          /\ cards'[lastClick'.card].ui = cards[lastClick'.card].ui]_vars

\* C6: a click on the currently chosen kind removes the voter from that kind,
\* decrements its count and sets userChoice to null; and k clicked twice on an
\* item whose record was empty leaves exactly {reactions: {}, userChoice: null}
\* persisted.  (Clicks whose read and write the store took.)
C6_ToggleOff ==
  [][LET m == lastClick'.mediaId
         k == lastClick'.kind
         before == StoredRecord(lsReactions, m)
         after == StoredRecord(lsReactions', m)
     IN (ClickedOk /\ before.userChoice = k)
          => /\ after.userChoice = Null
             /\ k \notin KindsOf(after, userId)
             /\ CountOf(after, k) + 1 = CountOf(before, k)
             /\ (/\ lastClick.kind = k /\ lastClick.mediaId = m
                 /\ lastClick.readOk /\ lastClick.writeOk /\ lastClick.loadedEmpty)
                  => lsReactions'[STORAGE_KEY_PREFIX \o m] = JSONstringify(EmptyRecord)]_vars

\* C6 witness: the last click was on the kind it found chosen, and the
\* persisted record is the empty record
C6_Witness ==
  /\ lastClick.readOk /\ lastClick.writeOk
  /\ lastClick.kind = "fire" /\ lastClick.loadedChoice = "fire"
  /\ (STORAGE_KEY_PREFIX \o lastClick.mediaId) \in DOMAIN lsReactions
  /\ lsReactions[STORAGE_KEY_PREFIX \o lastClick.mediaId] = JSONstringify(EmptyRecord)

\* C7: a click on kind k by a voter whose choice is another kind j leaves j
\* with count 0 and without the voter, k with one more count and with the
\* voter, and userChoice = k; after j then k on an item whose record was
\* empty, the record is exactly k: count 1, users [voter], userChoice k.
\* (Clicks whose read and write the store took.)
C7_Switch ==
  [][LET m == lastClick'.mediaId
         k == lastClick'.kind
         before == StoredRecord(lsReactions, m)
         after == StoredRecord(lsReactions', m)
         j == before.userChoice
     IN (ClickedOk /\ j \in reactionTypes /\ j # k)
          => /\ CountOf(after, j) = 0
             /\ j \notin KindsOf(after, userId)
             /\ CountOf(after, k) = CountOf(before, k) + 1
             /\ k \in KindsOf(after, userId)
             /\ after.userChoice = k
             /\ (/\ lastClick.kind = j /\ lastClick.mediaId = m
                 /\ lastClick.readOk /\ lastClick.writeOk /\ lastClick.loadedEmpty)
                  => after = [reactions |-> [x \in {k} |-> [count |-> 1, users |-> <<userId>>]],
                              userChoice |-> k]]_vars

\* C7 witness: the last click was on down and found fire chosen; down is the
\* persisted choice, with count 1
C7_Witness ==
  /\ lastClick.readOk /\ lastClick.writeOk
  /\ lastClick.kind = "down" /\ lastClick.loadedChoice = "fire"
  /\ StoredRecord(lsReactions, lastClick.mediaId).userChoice = "down"
  /\ CountOf(StoredRecord(lsReactions, lastClick.mediaId), "down") = 1
  /\ CountOf(StoredRecord(lsReactions, lastClick.mediaId), "fire") = 0

\* C8 (as claimed): a resolve never ends at the primary catalog or at the
\* legacy catalog with that source having thrown or having given no item: it
\* goes on to the next source.
C8_FailureFallsThrough ==
  [][\A t \in Resolves :
       (/\ tasks[t].pc # "done" /\ tasks'[t].pc = "done"
        /\ tasks'[t].consulted[Len(tasks'[t].consulted)] \in {"primary", "legacy"})
         => /\ ~tasks'[t].escaped
            /\ allMediaItems' # <<>>]_vars

\* C9 (as claimed): once the resolves have ended, no exception has escaped one
\* of them, and a gallery without cards shows a message.
C9_NoMediaState ==
  (Settled /\ \E t \in Resolves : tasks[t].pc = "done")
    => /\ \A t \in Resolves : ~tasks[t].escaped
       /\ cards = <<>> => messages # <<>>

\* C10 (as claimed): every item carries the id its source record was given
\* the first time it was resolved in this page load.
C10_IdStable ==
  \A j \in 1..Len(allMediaItems) :
    RecordOf(allMediaItems[j]) \in DOMAIN idOf
      => allMediaItems[j].id = idOf[RecordOf(allMediaItems[j])]

(***************************************************************************)
(* Properties of the resolver and the renderer                             *)
(***************************************************************************)
\* a page with nothing resolved and media-catalog.js as it was written
DirectPage ==
  [allMediaItems |-> <<>>, displayedCount |-> 0, cards |-> <<>>, messages |-> <<>>,
   loadMoreBtn |-> FALSE, skeleton |-> FALSE, mediaCatalog |-> env.legacy]

\* the lists that normalizing one source's own content (with the override
\* step on store ls) can give, over the random draws
DirectItems(source, ls) ==
  CASE source = "primary" ->
         {loadFromMediaJsonBody(DirectPage, env.primary, ls, tok).g.allMediaItems :
            tok \in RandTokens}
    [] source = "legacy" ->
         {loadFromCatalog(DirectPage, ls, tok).g.allMediaItems : tok \in RandTokens}
    [] source = "nginx" ->
         LET V == {<<>>} \cup {NginxItems(env.listV, 1, "video", videoExts, tok) :
                                 tok \in RandTokens}
             I == {<<>>} \cup {NginxItems(env.listI, 1, "image", imageExts, tok) :
                                 tok \in RandTokens}
         IN {v \o i : v \in V, i \in I} \cup {i \o v : v \in V, i \in I}

\* resolve t ends in this step
Completes(t) == tasks[t].pc # "done" /\ tasks'[t].pc = "done"

\* the source a resolve ended at
LastSource(task) == task.consulted[Len(task.consulted)]

\* C11 (as claimed): a resolve that ends at a source with at least one item
\* and without an exception leaves the list that normalizing that source's
\* own content gives: same records, same order, nothing from anywhere else.
C11_EquivalentToNthSource ==
  [][\A t \in Resolves :
       (Completes(t) /\ ~tasks'[t].escaped /\ allMediaItems' # <<>>)
         => allMediaItems' \in DirectItems(LastSource(tasks'[t]), lsOverride)]_vars


CardsAreDisplayedPrefix ==
  /\ Len(cards) = displayedCount
  /\ displayedCount <= Len(allMediaItems)
  /\ \A j \in 1..Len(cards) : cards[j].item = allMediaItems[j]

\* C13 (as claimed): once the resolves have ended without an exception, a
\* list with at least one item is shown as cards of exactly its items with no
\* message, and a message is in the gallery only when the list is empty.
C13_ItemsShownWithoutMessage ==
  (/\ Settled
   /\ \E t \in Resolves : tasks[t].pc = "done"
   /\ \A t \in Resolves : ~tasks[t].escaped)
    => /\ allMediaItems # <<>>
            => /\ messages = <<>>
               /\ displayedCount >= 1
               /\ CardsAreDisplayedPrefix
       /\ messages # <<>> => allMediaItems = <<>>


\* the sources the items of a list were built from, the override store aside
SourcesOf(items) == {items[j].src : j \in 1..Len(items)} \ {"override"}

\* C14 (as claimed): once the resolves have ended, the items of the list come
\* from one source (and the override store).
C14_SingleSource ==
  (Settled /\ \E t \in Resolves : tasks[t].pc = "done")
    => Cardinality(SourcesOf(allMediaItems)) <= 1


\* C15: after n calls of displayNextBatch on a list of N items that started
\* with nothing displayed, min(5n, N) cards are displayed, and they are the
\* cards of the first min(5n, N) items, one card for each.
C15_BatchCounts ==
  LET shown == Min(ITEMS_PER_LOAD * nCalls, Len(allMediaItems))
  IN /\ Len(cards) = shown
     /\ displayedCount = shown
     /\ \A j \in 1..Len(cards) : cards[j].item = allMediaItems[j]
     /\ \A j, h \in 1..Len(cards) : cards[j].mediaId = cards[h].mediaId => j = h

\* C15 witness: the fourth call on twelve items has been made and twelve
\* cards are displayed
C15_Witness == Len(allMediaItems) = 12 /\ nCalls = 4 /\ Len(cards) = 12


\* sequence s is the beginning of sequence r
IsPrefix(s, r) == Len(s) <= Len(r) /\ \A j \in 1..Len(s) : s[j] = r[j]

\* C16 (as claimed): after every step the cards are, in order, the cards of
\* the first displayedCount items of the list, and a step that displays more
\* of the same list keeps the cards that were there, in place.
C16_StablePagination ==
  [][/\ CardsAreDisplayedPrefix'
     /\ (allMediaItems' = allMediaItems /\ displayedCount' > displayedCount)
          => IsPrefix(cards, cards')]_vars


\* resolve t renders its first cards in this step
FirstRender(t) ==
  /\ tasks'[t] # tasks[t]
  /\ \/ tasks[t].pc \in {"fetch", "json"}
     \/ tasks[t].pc = "nginx" /\ tasks[t].v = "pending" /\ tasks[t].i = "pending"
  /\ cards' # cards /\ cards' # <<>>

\* C17 (as claimed): when a resolve started by a pull renders its first
\* cards, the gallery holds no card, the displayed count is 0 and the list
\* holds no item of an earlier resolve.
C17_RefreshReplaces ==
  [][\A t \in Resolves :
       (tasks[t].pulled /\ FirstRender(t))
         => /\ cards = <<>>
            /\ displayedCount = 0
            /\ allMediaItems = <<>>]_vars


\* C18: once gallery-user-id holds a value no step changes it, an init()
\* that finds it takes it as the voter id, and every vote in the store is
\* that voter's, across page loads.
C18_VoterIdOnce ==
  [][/\ lsUserId # Null => lsUserId' = lsUserId
     /\ inited' => (userId' = lsUserId' /\ lsUserId' # Null)
     /\ \A rec \in {JSONparse(lsReactions'[key]) : key \in DOMAIN lsReactions'} :
          \A k \in DOMAIN rec.reactions :
            Range(rec.reactions[k].users) \subseteq {lsUserId'}]_vars

\* C18 witness: init() has run in a page load in which nothing was clicked
\* yet, and the store holds a vote of the voter from an earlier page load
C18_Witness ==
  /\ inited /\ lastClick = NoClick
  /\ \E rec \in StoredRecords :
       \E k \in DOMAIN rec.reactions : userId \in Range(rec.reactions[k].users)


\* the extension of a file name, as loadFromNginx reads it
ExtOf(file) == toLowerCase(file[Len(file)])

\* C19 (as claimed): every local-file item of the list has an extension of
\* the allow-list of its kind.
C19_ExtensionAllowed ==
  \A j \in 1..Len(allMediaItems) :
    LET item == allMediaItems[j]
    IN /\ item.type = "video" => ExtOf(item.file) \in videoExts
       /\ item.type = "image" => ExtOf(item.file) \in imageExts


\* C20: a step in which a card gets the error overlay changes that card's
\* overlay only: the list, the displayed count, every sibling card, the
\* messages and the Load More control are as before; and a later
\* displayNextBatch call keeps the cards there are, marks included, and adds
\* the cards of the next ITEMS_PER_LOAD items.
C20_ErrorMarksOneCard ==
  [][/\ \A c \in 1..Len(cards) :
          (c <= Len(cards') /\ ~cards[c].mediaError /\ cards'[c].mediaError)
            => /\ cards' = [cards EXCEPT ![c].mediaError = TRUE]
               /\ allMediaItems' = allMediaItems
               /\ displayedCount' = displayedCount
               /\ messages' = messages
               /\ loadMoreBtn' = loadMoreBtn
     /\ nCalls' # nCalls
          => /\ IsPrefix(cards, cards')
             /\ Len(cards') = Min(displayedCount + ITEMS_PER_LOAD, Len(allMediaItems))
             /\ displayedCount' = Len(cards')
             /\ \A j \in (Len(cards) + 1)..Len(cards') :
                  cards'[j].item = allMediaItems[j] /\ ~cards'[j].mediaError
             /\ loadMoreBtn' = (displayedCount' < Len(allMediaItems))]_vars

\* a failed card beside a sound one, with every item of a three-batch list
\* rendered
C20_Witness ==
  /\ Len(allMediaItems) = 12
  /\ Len(cards) = 12
  /\ cards[1].mediaError
  /\ ~cards[2].mediaError
  /\ cards[7].mediaError


\* C21: the card of a cloud link whose url is a watch url or a short link of
\* YouTube carrying id (also one that names a later provider in its query)
\* embeds the YouTube embed path with that id; a url of another provider
\* embeds what that provider's rule gives, the earlier rule deciding; a url no
\* rule rewrites embeds itself when it ends in a media extension and nothing
\* (null) otherwise.
C21_EmbedRules ==
  \A j \in 1..Len(cards) :
    cards[j].type = "cloud-link" =>
      LET url == cards[j].item.url
          embed == cards[j].embedUrl
      IN /\ \A id \in VideoIds :
              url \in WatchUrls(id)
                => /\ indexOf(embed, "https://www.youtube.com/embed/" \o id) = 1
                   /\ includes(embed, id)
         /\ \A pair \in ProviderUrls : url = pair[1] => embed = pair[2]
         /\ url \in DirectUrls => embed = url
         /\ url \in UnknownUrls => embed = Null

\* a rendered watch url whose v parameter is not the first one
C21_Witness ==
  /\ Len(cards) = 1
  /\ cards[1].item.url = "https://www.youtube.com/watch?list=PL1&v=XYZ"
  /\ cards[1].embedUrl = "https://www.youtube.com/embed/XYZ"


\* C22 (as claimed): once every resolve that was started has completed, the
\* list is what one resolve yields from the source it ended on, and no two
\* cards of the gallery show the same item.
C22_LaterCompletionOverwrites ==
  (Settled /\ (\E t \in Resolves : tasks[t].pc = "done")
           /\ (\A t \in Resolves : ~tasks[t].escaped))
    => /\ allMediaItems \in DirectItems("primary", lsOverride)
                            \cup DirectItems("legacy", lsOverride)
       /\ \A i, j \in 1..Len(cards) : i # j => cards[i].item # cards[j].item


\* the requests of a resolve that have been sent and have not settled
InFlight(task) ==
  CASE task.pc \in {"fetch", "json"} -> 1
    [] task.pc = "nginx" -> Cardinality({k \in {"v", "i"} : task[k] = "pending"})
    [] OTHER -> 0

\* C23 (as claimed): no resolve has more than one source request in flight.
C23_OneRequestInFlight == \A t \in Resolves : InFlight(tasks[t]) <= 1


\* the keys of the reaction store whose value differs between ls and after
ChangedKeys(ls, after) ==
  {key \in (DOMAIN ls) \cup (DOMAIN after) :
     \/ key \notin DOMAIN ls
     \/ key \notin DOMAIN after
     \/ ls[key] # after[key]}

\* C24: the reaction store changes only in the step of a click handler, by
\* one write of one key (that of the clicked card's item); and when the
\* stored record had the voter in kind j and the click is on another kind k,
\* the record after the step is the one before (the write was rejected) or
\* has the voter in k and in k only: never in neither, never in both.
C24_OneWritePerTransition ==
  [][LET m == lastClick'.mediaId
         k == lastClick'.kind
         before == StoredRecord(lsReactions, m)
         after == StoredRecord(lsReactions', m)
     IN /\ lsReactions' # lsReactions
             => /\ Clicked
                /\ ChangedKeys(lsReactions, lsReactions') = {STORAGE_KEY_PREFIX \o m}
        /\ (Clicked /\ KindsOf(before, userId) # {} /\ KindsOf(before, userId) # {k})
             => \/ after = before /\ ~lastClick'.writeOk
                \/ KindsOf(after, userId) = {k} /\ after.userChoice = k
                     /\ lastClick'.writeOk]_vars

\* a switch from down to fire has been persisted while the record of the
\* other card is in the store as well
C24_Witness ==
  /\ lastClick.readOk /\ lastClick.writeOk
  /\ lastClick.loadedChoice = "down" /\ lastClick.kind = "fire"
  /\ KindsOf(StoredRecord(lsReactions, lastClick.mediaId), userId) = {"fire"}
  /\ Cardinality(DOMAIN lsReactions) = 2


\* C25 (as claimed): after the step of a reaction click the clicked card
\* shows the counts and the choice of the record that is in the store.
C25_ShownStateIsWritten ==
  [][Clicked
       => cards'[lastClick'.card].ui
            = ReactionsUI(StoredRecord(lsReactions', lastClick'.mediaId))]_vars


\* C26 (as claimed): every card has a mediaId that is a value (not the text
\* of undefined or null), and cards made from different records have
\* different mediaIds.
C26_DistinctMediaIds ==
  /\ \A j \in 1..Len(cards) :
       cards[j].mediaId \notin {Undefined, Null, "", "undefined", "null"}
  /\ \A i, j \in 1..Len(cards) :
       RecordOf(cards[i].item) # RecordOf(cards[j].item)
         => cards[i].mediaId # cards[j].mediaId


\* C27 (as claimed): a displayNextBatch call passes the whole batch: the
\* displayed count advances by ITEMS_PER_LOAD or to the end of the list,
\* whatever the items are, and no item has two cards.
C27_BatchCompletes ==
  [][nCalls' # nCalls
       => /\ displayedCount' = Min(displayedCount + ITEMS_PER_LOAD, Len(allMediaItems))
          /\ \A i, j \in 1..Len(cards') : i # j => cards'[i].item # cards'[j].item]_vars


\* the file names media-catalog.js lists (a string entry is the name itself)
CatalogFiles(entries) ==
  {IF entries[j].shape = "string" THEN entries[j].str ELSE entries[j].file :
     j \in 1..Len(entries)}

\* C28 (as claimed): when a resolve completes from the legacy catalog, the
\* items of a kind for which the store holds no override at that moment are
\* those of the entries media-catalog.js lists for that kind.
C28_LegacyReflectsStoreNow ==
  [][\A t \in Resolves :
       (/\ Completes(t) /\ ~tasks'[t].escaped
        /\ LastSource(tasks'[t]) = "legacy"
        /\ env.legacy.videos.isArray /\ env.legacy.images.isArray)
         => /\ "media-videos" \notin DOMAIN lsOverride
                 => FilesOfKind(allMediaItems', "video")
                      = CatalogFiles(env.legacy.videos.items)
            /\ "media-images" \notin DOMAIN lsOverride
                 => FilesOfKind(allMediaItems', "image")
                      = CatalogFiles(env.legacy.images.items)]_vars


\* the sum of the counts of a record over all kinds
RECURSIVE SumCounts(_, _)
SumCounts(rec, kinds) ==
  IF kinds = {} THEN 0
  ELSE LET k == CHOOSE k \in kinds : TRUE
       IN CountOf(rec, k) + SumCounts(rec, kinds \ {k})

\* C29 (as claimed): in every persisted record the counts sum to 1 when
\* userChoice is set and to 0 when it is null, and no count exceeds 1.
C29_CountsSumToChoice ==
  \A rec \in StoredRecords :
    /\ SumCounts(rec, reactionTypes) = (IF rec.userChoice = Null THEN 0 ELSE 1)
    /\ \A k \in reactionTypes : CountOf(rec, k) <= 1


\* a record left by a switch from exhale to down (counts summing to 1), beside
\* the record of the other card, left without a choice (counts summing to 0)
C29_Witness ==
  /\ lastClick.readOk /\ lastClick.writeOk
  /\ lastClick.loadedChoice = "exhale" /\ lastClick.kind = "down"
  /\ LET rec == StoredRecord(lsReactions, lastClick.mediaId)
     IN rec.userChoice = "down" /\ SumCounts(rec, reactionTypes) = 1
  /\ \E rec \in StoredRecords :
       rec.userChoice = Null /\ SumCounts(rec, reactionTypes) = 0
  /\ Cardinality(DOMAIN lsReactions) = 2


\* C30 (as claimed): in every state the displayed count is at most the length
\* of the list and the gallery holds as many media cards as the displayed
\* count says.
C30_CountMatchesCards ==
  /\ displayedCount <= Len(allMediaItems)
  /\ Len(cards) = displayedCount

=============================================================================
